---- MODULE Spec2Model ----
(***************************************************************************)
(* A model of burrow_exporter's Burrow API client (client.go): the URL     *)
(* builder, the generic typed fetch, HealthCheck and the eight typed       *)
(* operations, called by several concurrent callers.                       *)
(*                                                                         *)
(* Strings that the code takes apart (URLs, paths, identifiers) are        *)
(* sequences of tokens.  A token is one special character ("/", ":", "?",  *)
(* "#", "."), one percent-escape ("%2F", "%3F", "%23", the invalid "%zz"), *)
(* or a run of ordinary letters and digits ("v2", "kafka", "h").  Texts    *)
(* that the code only carries around (error texts, envelope messages) are  *)
(* plain strings.                                                          *)
(***************************************************************************)
EXTENDS Integers, Sequences, FiniteSets, TLC

(***************************************************************************)
(* Token strings                                                           *)
(***************************************************************************)
Empty == << >>

Specials == {"/", ":", "?", "#", ".", "%2F", "%3F", "%23", "%zz"}

IsWord(t) == t \notin Specials

\* strings.Index for a one-token separator: the first position of t, or 0
IndexOf(s, t) ==
  IF \E i \in 1..Len(s) : s[i] = t
  THEN CHOOSE i \in 1..Len(s) : s[i] = t /\ \A j \in 1..(i - 1) : s[j] # t
  ELSE 0

Count(s, t) == Cardinality({i \in 1..Len(s) : s[i] = t})

Prefix(s, n) == SubSeq(s, 1, n)

Suffix(s, n) == SubSeq(s, n, Len(s))

HasPrefix(s, p) == Len(s) >= Len(p) /\ Prefix(s, Len(p)) = p

\* strings.Split(s, sep): the segments between the separators, empty ones kept
RECURSIVE Split(_, _)
Split(s, sep) ==
  LET i == IndexOf(s, sep)
  IN IF i = 0 THEN <<s>>
     ELSE <<Prefix(s, i - 1)>> \o Split(Suffix(s, i + 1), sep)

\* strings.Join(segs, sep)
RECURSIVE JoinSegs(_, _)
JoinSegs(segs, sep) ==
  IF segs = << >> THEN Empty
  ELSE IF Len(segs) = 1 THEN segs[1]
  ELSE segs[1] \o <<sep>> \o JoinSegs(Tail(segs), sep)

(***************************************************************************)
(* Go error values.  type is the dynamic type, op the Op field of a        *)
(* *url.Error, text what Error() contains, id the exported sentinel the    *)
(* value is identical to ("" for a value that is no sentinel).             *)
(***************************************************************************)
MkErr(type, op, text, id) == [type |-> type, op |-> op, text |-> text, id |-> id]

Nil == MkErr("nil", "", "", "")

\* errors.New(text): a fresh *errors.errorString, identical to no sentinel
ErrorsNew(text) == MkErr("errors.errorString", "", text, "")

(***************************************************************************)
(* path.Clean and path.Join, as buildUrl uses them                         *)
(***************************************************************************)
Dot == <<".">>

DotDot == <<".", ".">>

\* The component loop of path.Clean: out is the stack of components kept.
RECURSIVE CleanSegs(_, _, _)
CleanSegs(segs, out, rooted) ==
  IF segs = << >> THEN out
  ELSE LET s == Head(segs)
           rest == Tail(segs)
       IN IF s = Empty \/ s = Dot THEN CleanSegs(rest, out, rooted)
          ELSE IF s = DotDot
          THEN IF out # << >> /\ out[Len(out)] # DotDot
               THEN CleanSegs(rest, Prefix(out, Len(out) - 1), rooted)
               ELSE IF rooted THEN CleanSegs(rest, out, rooted)
               ELSE CleanSegs(rest, Append(out, s), rooted)
          ELSE CleanSegs(rest, Append(out, s), rooted)

pathClean(p) ==
  IF p = Empty THEN Dot
  ELSE LET rooted == p[1] = "/"
           body == JoinSegs(CleanSegs(Split(p, "/"), << >>, rooted), "/")
       IN IF rooted THEN <<"/">> \o body
          ELSE IF body = Empty THEN Dot ELSE body

\* A join that concatenates without cleaning.
pathJoinRaw(a, b) == a \o b

\* path.Join(a, b): empty elements ignored, the rest joined by "/" and cleaned
pathJoin(a, b) ==
  IF a # Empty THEN pathClean(a \o <<"/">> \o b)
  ELSE IF b # Empty THEN pathClean(b)
  ELSE Empty

(***************************************************************************)
(* net/url: Parse and URL.String                                           *)
(***************************************************************************)
UnescapeTok(t) ==
  IF t = "%2F" THEN "/" ELSE IF t = "%3F" THEN "?" ELSE IF t = "%23" THEN "#" ELSE t

\* url.unescape: fails on an invalid escape, else decodes every escape
UnescapeOk(s) == \A i \in 1..Len(s) : s[i] # "%zz"

Unescape(s) == [i \in 1..Len(s) |-> UnescapeTok(s[i])]

\* url.escape in path mode: "?" and "#" are escaped, "/" ":" "." are not
escapePath(s) ==
  [i \in 1..Len(s) |-> IF s[i] = "?" THEN "%3F" ELSE IF s[i] = "#" THEN "%23" ELSE s[i]]

\* url.escape in fragment mode: only "#" is escaped among the tokens
escapeFragment(s) == [i \in 1..Len(s) |-> IF s[i] = "#" THEN "%23" ELSE s[i]]

MkUrl(err, scheme, opaque, host, path, rawpath, force, query, frag) ==
  [err |-> err, Scheme |-> scheme, Opaque |-> opaque, Host |-> host, Path |-> path,
   RawPath |-> rawpath, ForceQuery |-> force, RawQuery |-> query, Fragment |-> frag]

ParseFail(text) ==
  MkUrl(MkErr("url.Error", "parse", text, ""), Empty, Empty, Empty, Empty, Empty,
        FALSE, Empty, Empty)

\* url.getscheme: [ok, scheme, rest]
RECURSIVE getscheme(_, _)
getscheme(raw, i) ==
  IF i > Len(raw) THEN [ok |-> TRUE, scheme |-> Empty, rest |-> raw]
  ELSE IF IsWord(raw[i]) THEN getscheme(raw, i + 1)
  ELSE IF raw[i] = "."
  THEN IF i = 1 THEN [ok |-> TRUE, scheme |-> Empty, rest |-> raw]
       ELSE getscheme(raw, i + 1)
  ELSE IF raw[i] = ":"
  THEN IF i = 1 THEN [ok |-> FALSE, scheme |-> Empty, rest |-> Empty]
       ELSE [ok |-> TRUE, scheme |-> Prefix(raw, i - 1), rest |-> Suffix(raw, i + 1)]
  ELSE [ok |-> TRUE, scheme |-> Empty, rest |-> raw]

\* The query split of url.parse: [rest, query, force]; a lone trailing "?"
\* sets ForceQuery
SplitQuery(rest, q) ==
  IF rest # Empty /\ rest[Len(rest)] = "?" /\ Count(rest, "?") = 1
  THEN [rest |-> Prefix(rest, Len(rest) - 1), query |-> Empty, force |-> TRUE]
  ELSE IF q = 0 THEN [rest |-> rest, query |-> Empty, force |-> FALSE]
  ELSE [rest |-> Prefix(rest, q - 1), query |-> Suffix(rest, q + 1), force |-> FALSE]

\* The authority split of url.parse: [host, rest]; after is rest behind "//"
SplitAuthority(after, cut) ==
  IF cut = 0 THEN [host |-> after, rest |-> Empty]
  ELSE [host |-> Prefix(after, cut - 1), rest |-> Suffix(after, cut)]

\* url.parse from the authority on: host, then setPath
ParseHier(scheme, a, sq, frag) ==
  IF ~UnescapeOk(a.host) \/ ~UnescapeOk(a.rest) THEN ParseFail("invalid URL escape")
  ELSE MkUrl(Nil, scheme, Empty, a.host, Unescape(a.rest),
             IF escapePath(Unescape(a.rest)) = a.rest THEN Empty ELSE a.rest,
             sq.force, sq.query, frag)

\* url.parse after the scheme and the query were split off
ParseRest(scheme, sq, frag, colon, slash) ==
  IF ~HasPrefix(sq.rest, <<"/">>) /\ scheme # Empty
  THEN MkUrl(Nil, scheme, sq.rest, Empty, Empty, Empty, sq.force, sq.query, frag)
  ELSE IF ~HasPrefix(sq.rest, <<"/">>) /\ colon > 0 /\ (slash = 0 \/ colon < slash)
  THEN ParseFail("first path segment in URL cannot contain colon")
  ELSE IF HasPrefix(sq.rest, <<"/", "/">>)
          /\ (scheme # Empty \/ ~HasPrefix(sq.rest, <<"/", "/", "/">>))
  THEN ParseHier(scheme,
                 SplitAuthority(Suffix(sq.rest, 3), IndexOf(Suffix(sq.rest, 3), "/")),
                 sq, frag)
  ELSE ParseHier(scheme, [host |-> Empty, rest |-> sq.rest], sq, frag)

\* url.parse(u, viaRequest = false) after the fragment was split off
ParseScheme(g, sq, frag) ==
  IF ~g.ok THEN ParseFail("missing protocol scheme")
  ELSE ParseRest(g.scheme, sq, frag, IndexOf(sq.rest, ":"), IndexOf(sq.rest, "/"))

ParseNoFrag(g, frag) == ParseScheme(g, SplitQuery(g.rest, IndexOf(g.rest, "?")), frag)

\* url.Parse(rawurl): the fragment is split off first
SplitFragment(raw, h) ==
  IF h = 0 THEN [u |-> raw, frag |-> Empty]
  ELSE [u |-> Prefix(raw, h - 1), frag |-> Suffix(raw, h + 1)]

ParseSplit(f) ==
  IF ~UnescapeOk(f.frag) THEN ParseFail("invalid URL escape")
  ELSE ParseNoFrag(getscheme(f.u, 1), Unescape(f.frag))

Parse(raw) == ParseSplit(SplitFragment(raw, IndexOf(raw, "#")))

\* URL.EscapedPath: RawPath when it is still an encoding of Path
EscapedPath(u) ==
  IF u.RawPath # Empty /\ UnescapeOk(u.RawPath) /\ Unescape(u.RawPath) = u.Path
  THEN u.RawPath
  ELSE escapePath(u.Path)

\* URL.String: scheme, "//" and host
StringAuthority(u) ==
  (IF u.Scheme # Empty THEN u.Scheme \o <<":">> ELSE Empty)
  \o (IF u.Scheme # Empty \/ u.Host # Empty
      THEN (IF u.Host # Empty \/ u.Path # Empty THEN <<"/", "/">> ELSE Empty) \o u.Host
      ELSE Empty)

\* URL.String: the path behind what was written so far
StringPath(u, buf, path, colon, slash) ==
  (IF path # Empty /\ path[1] # "/" /\ u.Host # Empty THEN buf \o <<"/">>
   ELSE IF buf = Empty /\ colon > 0 /\ (slash = 0 \/ colon < slash) THEN <<".", "/">>
   ELSE buf)
  \o path

\* URL.String: query and fragment behind what was written so far
StringTail(u, buf) ==
  buf
  \o (IF u.ForceQuery \/ u.RawQuery # Empty THEN <<"?">> \o u.RawQuery ELSE Empty)
  \o (IF u.Fragment # Empty THEN <<"#">> \o escapeFragment(u.Fragment) ELSE Empty)

\* URL.String
String(u) ==
  IF u.Opaque # Empty
  THEN StringTail(u, (IF u.Scheme # Empty THEN u.Scheme \o <<":">> ELSE Empty) \o u.Opaque)
  ELSE StringTail(u, StringPath(u, StringAuthority(u), EscapedPath(u),
                                IndexOf(EscapedPath(u), ":"), IndexOf(EscapedPath(u), "/")))

(***************************************************************************)
(* BurrowClient.buildUrl: [url, err]                                       *)
(***************************************************************************)
\* parsedUrl.Path = path.Join(parsedUrl.Path, endpoint); parsedUrl.String()
JoinedUrl(parsedUrl, endpoint) == String([parsedUrl EXCEPT !.Path = pathJoin(@, endpoint)])

\* A builder that ignores the parse error and goes on with the zero URL.
buildUrlUnchecked(baseUrl, endpoint) == [url |-> JoinedUrl(Parse(baseUrl), endpoint), err |-> Nil]

\* A builder that joins the paths by plain concatenation.
buildUrlConcatParsed(parsedUrl, endpoint) ==
  IF parsedUrl.err # Nil THEN [url |-> Empty, err |-> parsedUrl.err]
  ELSE [url |-> String([parsedUrl EXCEPT !.Path = pathJoinRaw(@, endpoint)]), err |-> Nil]

buildUrlConcat(baseUrl, endpoint) == buildUrlConcatParsed(Parse(baseUrl), endpoint)

\* buildUrl once url.Parse returned
buildUrlParsed(parsedUrl, endpoint) ==
  IF parsedUrl.err # Nil THEN [url |-> Empty, err |-> parsedUrl.err]
  ELSE [url |-> JoinedUrl(parsedUrl, endpoint), err |-> Nil]

buildUrl(baseUrl, endpoint) == buildUrlParsed(Parse(baseUrl), endpoint)

(***************************************************************************)
(* The operations and the endpoint each one formats (fmt.Sprintf)          *)
(***************************************************************************)
TypedOps == {"ListClusters", "ClusterDetails", "ListConsumers", "ListConsumerTopics",
             "ConsumerGroupTopicDetails", "ConsumerGroupStatus", "ConsumerGroupLag",
             "ClusterTopicDetails"}

Ops == TypedOps \cup {"HealthCheck"}

Kafka == <<"/", "v2", "/", "kafka">>

Endpoint(op, cluster, group, topic) ==
  CASE op = "HealthCheck" -> <<"/", "burrow", "/", "admin">>
    [] op = "ListClusters" -> Kafka
    [] op = "ClusterDetails" -> Kafka \o <<"/">> \o cluster
    [] op = "ListConsumers" -> Kafka \o <<"/">> \o cluster \o <<"/", "consumer">>
    [] op = "ListConsumerTopics" ->
         Kafka \o <<"/">> \o cluster \o <<"/", "consumer", "/">> \o group \o <<"/", "topic">>
    [] op = "ConsumerGroupTopicDetails" ->
         Kafka \o <<"/">> \o cluster \o <<"/", "consumer", "/">> \o group
               \o <<"/", "topic", "/">> \o topic
    [] op = "ConsumerGroupStatus" ->
         Kafka \o <<"/">> \o cluster \o <<"/", "consumer", "/">> \o group \o <<"/", "status">>
    [] op = "ConsumerGroupLag" ->
         Kafka \o <<"/">> \o cluster \o <<"/", "consumer", "/">> \o group \o <<"/", "lag">>
    [] op = "ClusterTopicDetails" ->
         Kafka \o <<"/">> \o cluster \o <<"/", "topic", "/">> \o topic

\* The identifiers an operation puts into its endpoint
Uses(op) ==
  CASE op \in {"HealthCheck", "ListClusters"} -> {}
    [] op \in {"ClusterDetails", "ListConsumers"} -> {"cluster"}
    [] op \in {"ListConsumerTopics", "ConsumerGroupStatus", "ConsumerGroupLag"} ->
         {"cluster", "group"}
    [] op = "ConsumerGroupTopicDetails" -> {"cluster", "group", "topic"}
    [] op = "ClusterTopicDetails" -> {"cluster", "topic"}

\* The JSON key of the payload field of the operation's response type
PayloadKey(op) ==
  CASE op = "ListClusters" -> "clusters"
    [] op = "ClusterDetails" -> "cluster"
    [] op = "ListConsumers" -> "consumers"
    [] op = "ListConsumerTopics" -> "topics"
    [] op \in {"ConsumerGroupTopicDetails", "ClusterTopicDetails"} -> "offsets"
    [] op \in {"ConsumerGroupStatus", "ConsumerGroupLag"} -> "status"
    [] OTHER -> "none"

(***************************************************************************)
(* What the remote end can answer to one GET                               *)
(***************************************************************************)
\* A response body.  kind: "empty" (no bytes), "syntax" (not JSON), "stream"
\* (reading the body fails: message is the text of the reader's error, here
\* the one net/http's chunked reader makes with errors.New), "mismatch" (valid
\* JSON whose "error" is not a boolean), "object" (a JSON object).  has* say
\* which keys the object holds.
MkBody(kind, hasError, error, hasMessage, message, key, payload) ==
  [kind |-> kind, hasError |-> hasError, error |-> error, hasMessage |-> hasMessage,
   message |-> message, key |-> key, payload |-> payload]

Bodies ==
  { MkBody("empty", FALSE, FALSE, FALSE, "", "none", "zero"),
    MkBody("syntax", FALSE, FALSE, FALSE, "", "none", "zero"),
    MkBody("stream", FALSE, FALSE, FALSE, "malformed chunked encoding", "none", "zero"),
    MkBody("mismatch", TRUE, FALSE, TRUE, "m", "clusters", "p1"),
    MkBody("object", TRUE, FALSE, FALSE, "", "clusters", "p1"),
    MkBody("object", FALSE, FALSE, TRUE, "fine", "status", "p2"),
    MkBody("object", TRUE, TRUE, TRUE, "no such cluster", "clusters", "p1"),
    MkBody("object", TRUE, TRUE, TRUE, "malformed chunked encoding", "none", "zero") }

NoBody == MkBody("none", FALSE, FALSE, FALSE, "", "none", "zero")

\* The outcome of http.Client.Get: a transport error, or a response
TransportErr == MkErr("url.Error", "Get", "dial tcp: connection refused", "")

Outcomes ==
  {[err |-> TransportErr, body |-> NoBody]} \cup {[err |-> Nil, body |-> b] : b \in Bodies}

NoOutcome == [err |-> Nil, body |-> NoBody]

(***************************************************************************)
(* encoding/json: Decoder.Decode into a response struct                    *)
(***************************************************************************)
\* A response struct: the embedded BurrowResp and the payload field
MkResp(error, message, payload) == [Error |-> error, Message |-> message, Payload |-> payload]

ZeroResp == MkResp(FALSE, "", "zero")

\* Unmarshal of an object: a key the JSON holds overwrites the field, a key
\* it lacks leaves the field as it was, a key the struct lacks is ignored.
Unmarshal(dest, body, key, withError) ==
  MkResp(IF withError /\ body.hasError THEN body.error ELSE dest.Error,
         IF body.hasMessage THEN body.message ELSE dest.Message,
         IF body.key = key THEN body.payload ELSE dest.Payload)

\* Decode(dest): [dest, err]
Decode(dest, body, key) ==
  CASE body.kind = "empty" ->
         [dest |-> dest, err |-> MkErr("errors.errorString", "", "EOF", "io.EOF")]
    [] body.kind = "syntax" ->
         [dest |-> dest,
          err |-> MkErr("json.SyntaxError", "", "invalid character looking for beginning of value", "")]
    [] body.kind = "stream" -> [dest |-> dest, err |-> ErrorsNew(body.message)]
    [] body.kind = "mismatch" ->
         [dest |-> Unmarshal(dest, body, key, FALSE),
          err |-> MkErr("json.UnmarshalTypeError", "",
                        "json: cannot unmarshal string into Go struct field of type bool", "")]
    [] body.kind = "object" -> [dest |-> Unmarshal(dest, body, key, TRUE), err |-> Nil]

(***************************************************************************)
(* The client and its callers                                              *)
(***************************************************************************)
MaxRounds == 2

ClientTimeoutSeconds == 10

Callers == {1, 2}

\* Base addresses: plain, with a path, with a trailing slash, with query and
\* fragment, with an escaped slash, relative, opaque, without a scheme
\* before the colon, with an invalid escape.
Bases ==
  { <<"s", ":", "/", "/", "h">>,
    <<"s", ":", "/", "/", "h", "/", "p">>,
    <<"s", ":", "/", "/", "h", "/", "p", "/">>,
    <<"s", ":", "/", "/", "h", "/", "p", "?", "q", "#", "f">>,
    <<"s", ":", "/", "/", "h", "/", "p", "%2F", "x">>,
    <<"s", ":", "/", "/", "h", "/", "p", "/", ".", ".", "/", "x">>,
    <<"p">>,
    <<"s", ":", "p">>,
    <<":", "/", "/", "h">>,
    <<"s", ":", "/", "/", "h", "/", "%zz">> }

ClientBases == { <<"s", ":", "/", "/", "h", "/", "p">>, <<":", "/", "/", "h">> }

\* Identifiers a caller may pass
Idents == { Empty, Dot, DotDot, <<"a">>, <<"b", "?">> }

ClientIdents == { <<"a">> }

VARIABLES bc, calls, heap, openBodies

vars == <<bc, calls, heap, openBodies>>

\* One caller's call: pc is where it stands ("idle", "get": blocked in
\* client.Get, "decode": the response arrived, "check": getJsonReq returned
\* nil, "done": the operation returned), result the pointer returned (0: nil),
\* healthy HealthCheck's boolean, body the state of the response body.
\* requests counts the calls of client.Get (what net/http sends inside one
\* Get, such as followed redirects, is not counted); decodeStarted,
\* flagInspected and failedAt record what else the call did.
IdleCall ==
  [pc |-> "idle", op |-> "none", cluster |-> Empty, group |-> Empty, topic |-> Empty,
   endpoint |-> Empty, outcome |-> NoOutcome, body |-> "none", requests |-> 0,
   decodeStarted |-> FALSE, flagInspected |-> FALSE, failedAt |-> "", result |-> 0,
   healthy |-> FALSE, err |-> Nil, round |-> 0]

\* A destination shared by every call.
DestShared(c) == 1

\* The address of the response struct the call allocates (&ClustersResp{}, ...)
DestOf(c) == c

\* MakeBurrowClient
MakeBurrowClient(baseUrl) ==
  [baseUrl |-> baseUrl, client |-> [Timeout |-> ClientTimeoutSeconds]]

InitCalls ==
  /\ calls = [c \in Callers |-> IdleCall]
  /\ heap = [a \in Callers |-> ZeroResp]
  /\ openBodies = 0

Init ==
  /\ \E b \in ClientBases : bc = MakeBurrowClient(b)
  /\ InitCalls

InitUrl ==
  /\ \E b \in Bases : bc = MakeBurrowClient(b)
  /\ InitCalls

\* The arguments of a call of op with identifiers from ids: a parameter the
\* operation does not have is the empty string
ArgsOf(op, ids) ==
  { a \in [cluster : ids \cup {Empty}, group : ids \cup {Empty}, topic : ids \cup {Empty}] :
      /\ a.cluster \in (IF "cluster" \in Uses(op) THEN ids ELSE {Empty})
      /\ a.group \in (IF "group" \in Uses(op) THEN ids ELSE {Empty})
      /\ a.topic \in (IF "topic" \in Uses(op) THEN ids ELSE {Empty}) }

\* The operation starts: buildUrl, and for a typed operation the allocation
\* of the destination; a URL construction error returns at once.
Call(c, op, cl, gr, tp) ==
  /\ calls[c].pc = "idle"
  /\ calls[c].round < MaxRounds
  /\ LET b == buildUrl(bc.baseUrl, Endpoint(op, cl, gr, tp))
         started == [calls[c] EXCEPT !.op = op, !.cluster = cl, !.group = gr, !.topic = tp,
                                     !.round = @ + 1]
     IN IF b.err # Nil
        THEN /\ calls' = [calls EXCEPT ![c] =
                            [started EXCEPT !.pc = "done", !.err = b.err, !.failedAt = "url"]]
             /\ UNCHANGED heap
        ELSE /\ calls' = [calls EXCEPT ![c] = [started EXCEPT !.pc = "get", !.endpoint = b.url]]
             /\ heap' = IF op \in TypedOps THEN [heap EXCEPT ![DestOf(c)] = ZeroResp] ELSE heap
  /\ UNCHANGED <<bc, openBodies>>

\* A failed GET tried once more.
GetFailedRetry(cs, e) ==
  IF cs.requests < 2 THEN cs
  ELSE [cs EXCEPT !.pc = "done", !.err = e, !.failedAt = "get"]

\* client.Get returned an error: the operation returns it
GetFailed(cs, e) == [cs EXCEPT !.pc = "done", !.err = e, !.failedAt = "get"]

\* A health check that reads the body and wants JSON.
HealthCheckDecoding(o) ==
  IF o.err # Nil THEN [healthy |-> FALSE, err |-> o.err, body |-> "none"]
  ELSE LET d == Decode(ZeroResp, o.body, "none")
       IN [healthy |-> d.err = Nil, err |-> d.err, body |-> "open"]

\* HealthCheck after client.Get: [healthy, err, body]
HealthCheckGet(o) ==
  IF o.err # Nil THEN [healthy |-> FALSE, err |-> o.err, body |-> "none"]
  ELSE [healthy |-> TRUE, err |-> Nil, body |-> "open"]

\* client.Get completes, with an error or with a response whose body is open.
Get(c) ==
  /\ calls[c].pc = "get"
  /\ \E o \in Outcomes :
       LET sent == [calls[c] EXCEPT !.requests = @ + 1, !.outcome = o]
       IN IF sent.op = "HealthCheck"
          THEN LET h == HealthCheckGet(o)
               IN /\ calls' = [calls EXCEPT ![c] =
                                 IF h.err # Nil THEN GetFailed(sent, h.err)
                                 ELSE [sent EXCEPT !.pc = "done", !.healthy = h.healthy,
                                                   !.body = h.body]]
                  /\ openBodies' = IF h.body = "open" THEN openBodies + 1 ELSE openBodies
          ELSE /\ calls' = [calls EXCEPT ![c] =
                              IF o.err # Nil THEN GetFailed(sent, o.err)
                              ELSE [sent EXCEPT !.pc = "decode", !.body = "open"]]
               /\ openBodies' = IF o.err = Nil THEN openBodies + 1 ELSE openBodies
  /\ UNCHANGED <<bc, heap>>

\* A fetch that closes the body only after a successful decode.
getJsonReqNoDefer(dest, body, key) ==
  LET d == Decode(dest, body, key)
  IN [dest |-> d.dest, err |-> d.err, body |-> IF d.err = Nil THEN "closed" ELSE "open"]

\* getJsonReq once the response is there: decode into dest, and the deferred
\* resp.Body.Close() as the function returns: [dest, err, body]
getJsonReq(dest, body, key) ==
  LET d == Decode(dest, body, key)
  IN [dest |-> d.dest, err |-> d.err, body |-> "closed"]

\* getJsonReq decodes and returns; a decode error makes the operation return.
DecodeStep(c) ==
  /\ calls[c].pc = "decode"
  /\ LET cs == calls[c]
         r == getJsonReq(heap[DestOf(c)], cs.outcome.body, PayloadKey(cs.op))
         read == [cs EXCEPT !.decodeStarted = TRUE, !.body = r.body]
     IN /\ heap' = [heap EXCEPT ![DestOf(c)] = r.dest]
        /\ openBodies' = IF r.body = "closed" THEN openBodies - 1 ELSE openBodies
        /\ calls' = [calls EXCEPT ![c] =
                       IF r.err # Nil
                       THEN [read EXCEPT !.pc = "done", !.err = r.err, !.failedAt = "decode"]
                       ELSE [read EXCEPT !.pc = "check"]]
  /\ UNCHANGED bc

\* An envelope check that hands out the struct together with the error.
CheckEnvelopeBoth(resp, addr) ==
  IF resp.Error THEN [result |-> addr, err |-> ErrorsNew(resp.Message)]
  ELSE [result |-> addr, err |-> Nil]

\* An envelope check that reports its own text instead of the message.
CheckEnvelopeOwnText(resp, addr) ==
  IF resp.Error THEN [result |-> 0, err |-> ErrorsNew("error retrieving clusters")]
  ELSE [result |-> addr, err |-> Nil]

\* The end of every typed operation: the envelope's flag decides
CheckEnvelope(resp, addr) ==
  IF resp.Error THEN [result |-> 0, err |-> ErrorsNew(resp.Message)]
  ELSE [result |-> addr, err |-> Nil]

Check(c) ==
  /\ calls[c].pc = "check"
  /\ LET r == CheckEnvelope(heap[DestOf(c)], DestOf(c))
     IN calls' = [calls EXCEPT ![c] =
                    [@ EXCEPT !.pc = "done", !.flagInspected = TRUE, !.result = r.result,
                              !.err = r.err,
                              !.failedAt = IF r.err # Nil THEN "flag" ELSE ""]]
  /\ UNCHANGED <<bc, heap, openBodies>>

\* The caller is done with what the operation returned and may call again.
Return(c) ==
  /\ calls[c].pc = "done"
  /\ calls' = [calls EXCEPT ![c] = [IdleCall EXCEPT !.round = calls[c].round]]
  /\ heap' = IF calls[c].op \in TypedOps THEN [heap EXCEPT ![DestOf(c)] = ZeroResp] ELSE heap
  /\ UNCHANGED <<bc, openBodies>>

Next ==
  \E c \in Callers :
    \/ \E op \in Ops : \E a \in ArgsOf(op, ClientIdents) :
         Call(c, op, a.cluster, a.group, a.topic)
    \/ Get(c)
    \/ DecodeStep(c)
    \/ Check(c)
    \/ Return(c)

Spec == Init /\ [][Next]_vars

\* URL construction alone: one caller starts one operation with any identifiers
NextUrl ==
  \E op \in Ops : \E a \in ArgsOf(op, Idents) : Call(1, op, a.cluster, a.group, a.topic)

SpecUrl == InitUrl /\ [][NextUrl]_vars

(***************************************************************************)
(* Properties                                                              *)
(***************************************************************************)
Done(c) == calls[c].pc = "done"

Typed(c) == calls[c].op \in TypedOps

BaseParsed == Parse(bc.baseUrl)

\* The GET of the call completed and returned a response
GotResponse(c) == calls[c].requests >= 1 /\ calls[c].outcome.err = Nil

\* C1: every typed operation that returned has returned either a non-nil
\* result with a nil error or a nil result with a non-nil error, whichever
\* stage (URL construction, GET, decode, envelope flag) ended it.
ResultXorError ==
  \A c \in Callers :
    (Done(c) /\ Typed(c)) =>
       \/ calls[c].result # 0 /\ calls[c].err = Nil
       \/ calls[c].result = 0 /\ calls[c].err # Nil

\* One call returned a result, the other failed on the envelope flag.
ResultXorErrorWitness ==
  /\ Done(1) /\ Typed(1) /\ calls[1].result # 0
  /\ Done(2) /\ Typed(2) /\ calls[2].failedAt = "flag"

\* C2: when the GET completed and the body decoded into an envelope, a true
\* error flag makes the operation return nil and an error whose text is the
\* envelope's message, whatever payload the body holds; a false flag makes
\* it return the decoded envelope and no error.
EnvelopeErrorPrecedence ==
  \A c \in Callers :
    (Done(c) /\ Typed(c) /\ GotResponse(c) /\ calls[c].outcome.body.kind = "object") =>
       LET body == calls[c].outcome.body
       IN IF body.hasError /\ body.error
          THEN /\ calls[c].result = 0
               /\ calls[c].err.type = "errors.errorString"
               /\ calls[c].err.text = (IF body.hasMessage THEN body.message ELSE "")
          ELSE /\ calls[c].err = Nil
               /\ calls[c].result # 0
               /\ heap[calls[c].result] =
                    MkResp(FALSE, IF body.hasMessage THEN body.message ELSE "",
                           IF body.key = PayloadKey(calls[c].op) THEN body.payload ELSE "zero")

\* A flagged envelope that also carries the operation's payload was answered.
EnvelopeErrorPrecedenceWitness ==
  \E c \in Callers :
    /\ Done(c) /\ calls[c].op = "ListClusters" /\ GotResponse(c)
    /\ calls[c].outcome.body.kind = "object" /\ calls[c].outcome.body.error
    /\ calls[c].outcome.body.key = "clusters" /\ calls[c].outcome.body.payload = "p1"

\* C3: with a base address that does not parse, no call ever sends a
\* request, and every call that returned has failed with the parse error.
UnparseableBaseNoRequest ==
  BaseParsed.err # Nil =>
    \A c \in Callers :
      /\ calls[c].requests = 0
      /\ calls[c].pc \in {"idle", "done"}
      /\ Done(c) => /\ calls[c].err = BaseParsed.err
                    /\ calls[c].result = 0
                    /\ ~calls[c].healthy

\* With an unparseable base, a health check and a typed operation returned.
UnparseableBaseWitness ==
  /\ BaseParsed.err # Nil
  /\ Done(1) /\ calls[1].op = "HealthCheck"
  /\ Done(2) /\ Typed(2)

ErrorKindsNeverConflated ==
  \A c, d \in Callers :
    (/\ Done(c) /\ Typed(c) /\ calls[c].err # Nil
     /\ Done(d) /\ Typed(d) /\ calls[d].err # Nil
     /\ calls[c].err = calls[d].err) => calls[c].failedAt = calls[d].failedAt

\* C6: once getJsonReq has returned after a completed GET, the response
\* body is closed, whether the decode succeeded or failed.
FetchClosesBody ==
  \A c \in Callers :
    (Typed(c) /\ GotResponse(c) /\ calls[c].pc \in {"check", "done"}) =>
       calls[c].body = "closed"

\* One fetch returned after a failed decode, another after a successful one.
FetchClosesBodyWitness ==
  /\ Typed(1) /\ calls[1].failedAt = "decode" /\ GotResponse(1)
  /\ Typed(2) /\ calls[2].pc = "check"

\* C7: HealthCheck returns (true, nil) exactly when the URL was built and the
\* GET completed, whatever the body; it never decodes and never looks at an
\* envelope, and when it does not return true it returns an error.
HealthCheckIndependence ==
  \A c \in Callers :
    (Done(c) /\ calls[c].op = "HealthCheck") =>
       /\ (calls[c].healthy /\ calls[c].err = Nil)
            <=> (BaseParsed.err = Nil /\ GotResponse(c))
       /\ ~calls[c].healthy => calls[c].err # Nil
       /\ ~calls[c].decodeStarted
       /\ ~calls[c].flagInspected

\* Health checks returned on a body that is not JSON and on a flagged envelope.
HealthCheckIndependenceWitness ==
  /\ Done(1) /\ calls[1].op = "HealthCheck" /\ calls[1].outcome.body.kind = "syntax"
  /\ Done(2) /\ calls[2].op = "HealthCheck" /\ calls[2].outcome.body.error
  /\ GotResponse(1) /\ GotResponse(2)

\* What a caller holds when its call returned
Returned(c) ==
  [isNil |-> calls[c].result = 0,
   value |-> IF calls[c].result = 0 THEN ZeroResp ELSE heap[calls[c].result],
   healthy |-> calls[c].healthy,
   err |-> calls[c].err]

MkReturned(isNil, value, healthy, err) ==
  [isNil |-> isNil, value |-> value, healthy |-> healthy, err |-> err]

\* The decode and flag stages of a call run alone on a fresh destination
AloneDecoded(d) ==
  IF d.err # Nil THEN MkReturned(TRUE, ZeroResp, FALSE, d.err)
  ELSE IF d.dest.Error
  THEN MkReturned(TRUE, ZeroResp, FALSE,
                  MkErr("errors.errorString", "", d.dest.Message, ""))
  ELSE MkReturned(FALSE, d.dest, FALSE, Nil)

\* What the call of c gives when run alone against the response it saw
Alone(c) ==
  IF BaseParsed.err # Nil THEN MkReturned(TRUE, ZeroResp, FALSE, BaseParsed.err)
  ELSE IF calls[c].outcome.err # Nil
  THEN MkReturned(TRUE, ZeroResp, FALSE, calls[c].outcome.err)
  ELSE IF calls[c].op = "HealthCheck" THEN MkReturned(TRUE, ZeroResp, TRUE, Nil)
  ELSE AloneDecoded(Decode(ZeroResp, calls[c].outcome.body, PayloadKey(calls[c].op)))

SameCall(c, d) ==
  /\ calls[c].op = calls[d].op
  /\ calls[c].cluster = calls[d].cluster
  /\ calls[c].group = calls[d].group
  /\ calls[c].topic = calls[d].topic
  /\ calls[c].outcome = calls[d].outcome

CallsIndependent ==
  /\ \A c \in Callers : Done(c) => Returned(c) = Alone(c)
  /\ \A c, d \in Callers : (Done(c) /\ Done(d) /\ SameCall(c, d)) => Returned(c) = Returned(d)

\* C8: no step changes the client's base address or transport handle, and
\* under every interleaving what a call returned is what it gives when run
\* alone against the response it saw; the same call on the same response
\* returns the same.
ConcurrentCallsIndependent == [](CallsIndependent) /\ [][bc' = bc]_vars

\* Both callers hold results of typed operations, decoded from different bodies.
ConcurrentCallsWitness ==
  /\ Done(1) /\ Typed(1) /\ calls[1].result # 0
  /\ Done(2) /\ Typed(2) /\ calls[2].result # 0
  /\ heap[calls[1].result] # heap[calls[2].result]

\* The segments of a path: what stands between its separators
PathSegs(p) == IF p # Empty /\ p[1] = "/" THEN Tail(Split(p, "/")) ELSE Split(p, "/")

NonEmptySegs(p) == SelectSeq(PathSegs(p), LAMBDA seg : seg # Empty)

\* The identifiers the call of c passed
IdentsOf(c) ==
  {calls[c].cluster : x \in {"cluster"} \cap Uses(calls[c].op)}
  \cup {calls[c].group : x \in {"group"} \cap Uses(calls[c].op)}
  \cup {calls[c].topic : x \in {"topic"} \cap Uses(calls[c].op)}

\* The URL the call requests keeps the base's scheme, host, query and
\* fragment, and its path is made of the base path's segments followed by
\* the segments of the endpoint with the identifiers as passed.
UrlAsTemplate(c) ==
  LET requested == Parse(calls[c].endpoint)
  IN /\ requested.err = Nil
     /\ requested.Scheme = BaseParsed.Scheme
     /\ requested.Host = BaseParsed.Host
     /\ requested.RawQuery = BaseParsed.RawQuery
     /\ requested.Fragment = BaseParsed.Fragment
     /\ PathSegs(requested.Path) =
          NonEmptySegs(BaseParsed.Path)
          \o PathSegs(Endpoint(calls[c].op, calls[c].cluster, calls[c].group, calls[c].topic))

\* C9 as claimed: for a parseable base and any identifiers without a
\* separator, the empty string, "." and ".." included, the requested URL is
\* the base with the endpoint's segments appended.
UrlVerbatimForAnyIdentifier ==
  (calls[1].pc = "get" /\ Typed(1)) => UrlAsTemplate(1)

\* C9 as amended: the same for a base that is not opaque and whose path has
\* no "." or ".." segment, and identifiers that are not empty, "." or "..".
UrlVerbatimForPlainIdentifiers ==
  (/\ calls[1].pc = "get" /\ Typed(1)
   /\ BaseParsed.Opaque = Empty
   /\ \A i \in 1..Len(PathSegs(BaseParsed.Path)) :
         PathSegs(BaseParsed.Path)[i] \notin {Dot, DotDot}
   /\ IdentsOf(1) \cap {Empty, Dot, DotDot} = {}) => UrlAsTemplate(1)

\* A URL was built on a base with path, query and fragment from three
\* identifiers, one of them with a character the URL must escape.
UrlVerbatimWitness ==
  /\ calls[1].pc = "get" /\ calls[1].op = "ConsumerGroupTopicDetails"
  /\ BaseParsed.RawQuery # Empty /\ BaseParsed.Fragment # Empty
  /\ calls[1].cluster = <<"a">> /\ calls[1].group = <<"b", "?">> /\ calls[1].topic = <<"a">>

\* C10: when no call is under way, every response body received is closed.
NoResponseLeaked ==
  (\A c \in Callers : calls[c].pc \in {"idle", "done"}) => openBodies = 0

====
